---- MODULE Spec2Model ----
(***************************************************************************)
(* Model of apps/web/lib/apps/utils/AppUtils.ts: the app/credential        *)
(* resolver (getApps, hasIntegration, hasIntegrationInstalled, getAppName, *)
(* getAppType over ALL_APPS_MAP) and the disposable-link booking page      *)
(* loader (getServerSideProps).                                            *)
(*                                                                         *)
(* JavaScript strings are modelled as sequences of one-character strings,  *)
(* so that endsWith and includes are computed on the characters.           *)
(* JavaScript null / undefined are the records Null / Undefined below; a   *)
(* missing property of an object is a key missing from the record's DOMAIN.*)
(***************************************************************************)
EXTENDS Integers, Sequences, FiniteSets, TLC

VARIABLES
    \* ---- app/credential resolver ----
    appStore,         \* Object.values(appStore).map(app => app.metadata): a sequence of apps
    CalendarApps,     \* @lib/apps/calendar/config APPS: sequence of <<key, app>> properties
    ConferencingApps, \* @lib/apps/conferencing/config APPS
    PaymentApps,      \* @lib/apps/payment/config APPS
    userCredentials,  \* the argument of getApps
    apps,             \* the value getApps returned (AppMeta), Undefined before the call
    ret,              \* the last helper call: [op, arg, val]
    \* ---- disposable-link page loader ----
    db,               \* the relational store read through prisma
    faults,           \* the queries the store fails for this request
    query,            \* context.query of the request, Undefined before it arrives
    pc,               \* position of getServerSideProps
    loc,              \* its local variables
    events,           \* the prisma calls issued / settled so far, in order
    outcome,          \* what getServerSideProps returned or threw
    \* ---- the loader with the user and credential fetches issued concurrently ----
    cpc, cloc, cevents, coutcome

appVars  == <<appStore, CalendarApps, ConferencingApps, PaymentApps, userCredentials, apps, ret>>
envVars  == <<db, faults, query>>
seqVars  == <<pc, loc, events, outcome>>
concVars == <<cpc, cloc, cevents, coutcome>>
vars     == <<appVars, envVars, seqVars, concVars>>

----------------------------------------------------------------------------
(* JavaScript values *)

Null      == [null |-> TRUE]
Undefined == [undefined |-> TRUE]

\* String.prototype.endsWith
EndsWith(s, suffix) ==
    /\ Len(s) >= Len(suffix)
    /\ SubSeq(s, Len(s) - Len(suffix) + 1, Len(s)) = suffix

\* String.prototype.includes
Includes(s, sub) ==
    \E i \in 1..(Len(s) - Len(sub) + 1) : SubSeq(s, i, i + Len(sub) - 1) = sub

Digits == <<"0","1","2","3","4","5","6","7","8","9">>

\* the property key an array index becomes when the array is spread into an object
RECURSIVE IndexKey(_)
IndexKey(i) ==
    IF i < 10 THEN <<Digits[i + 1]>>
    ELSE IndexKey(i \div 10) \o <<Digits[(i % 10) + 1]>>

\* the type strings used
zoom_video      == <<"z","o","o","m","_","v","i","d","e","o">>
daily_video     == <<"d","a","i","l","y","_","v","i","d","e","o">>
jitsi_video     == <<"j","i","t","s","i","_","v","i","d","e","o">>
huddle01_video  == <<"h","u","d","d","l","e","0","1","_","v","i","d","e","o">>
google_calendar == <<"g","o","o","g","l","e","_","c","a","l","e","n","d","a","r">>
apple_calendar  == <<"a","p","p","l","e","_","c","a","l","e","n","d","a","r">>
stripe_payment  == <<"s","t","r","i","p","e","_","p","a","y","m","e","n","t">>
acme_web3       == <<"a","c","m","e","_","w","e","b","3">>

_calendar == <<"_","c","a","l","e","n","d","a","r">>
_payment  == <<"_","p","a","y","m","e","n","t">>
_web3     == <<"_","w","e","b","3">>

\* !!x for the values an optional boolean field takes
Truthy(x) == x = "true"

----------------------------------------------------------------------------
(* The app catalog *)

\* an App descriptor (metadata): type, name, installed?
App(type, name, installed) == [type |-> type, name |-> name, installed |-> installed]

\* { ...target, ...source } on objects kept as sequences of <<key, value>> in
\* property order: an existing key keeps its place and takes the new value
RECURSIVE ObjectSpread(_, _)
ObjectSpread(target, source) ==
    IF source = <<>> THEN target
    ELSE LET p == Head(source)
             hit == {i \in 1..Len(target) : target[i][1] = p[1]}
             next == IF hit = {} THEN Append(target, p)
                     ELSE [i \in 1..Len(target) |-> IF i \in hit THEN p ELSE target[i]]
         IN  ObjectSpread(next, Tail(source))

\* the own properties of an array: its indices as keys
ArrayProperties(arr) == [i \in 1..Len(arr) |-> <<IndexKey(i - 1), arr[i]>>]

ALL_APPS_MAP ==
    ObjectSpread(ObjectSpread(ObjectSpread(ArrayProperties(appStore),
        CalendarApps), ConferencingApps), PaymentApps)

\* Object.values(ALL_APPS_MAP)
ALL_APPS ==
    LET map == ALL_APPS_MAP
    IN  [i \in 1..Len(map) |-> map[i][2]]

\* ALL_APPS_MAP[name]
MapGet(name) ==
    LET map == ALL_APPS_MAP
        hit == {i \in 1..Len(map) : map[i][1] = name}
    IN  IF hit = {} THEN Undefined ELSE map[CHOOSE i \in hit : TRUE][2]

----------------------------------------------------------------------------
(* getApps *)

\* _.pick(object, fields)
Pick(object, fields) == [f \in (fields \cap DOMAIN object) |-> object[f]]

\* the filter predicate of getApps
CredentialMatches(credential, app) == credential.type = app.type

\* Redact without the projection: the whole credential object is forwarded
RedactNothing(credential) == credential

\* the projection getApps applies to each matching credential
Redact(credential) == Pick(credential, {"id", "type"})

\* Array.prototype.filter with the predicate CredentialMatches(_, app)
RECURSIVE FilterCredentials(_, _)
FilterCredentials(list, app) ==
    IF list = <<>> THEN <<>>
    ELSE IF CredentialMatches(Head(list), app)
         THEN <<Head(list)>> \o FilterCredentials(Tail(list), app)
         ELSE FilterCredentials(Tail(list), app)

\* one element of ALL_APPS.map(...)
AppWithCredentials(app, creds) ==
    LET matching    == FilterCredentials(creds, app)
        credentials == [k \in 1..Len(matching) |-> Redact(matching[k])]
        credential  == IF Len(credentials) > 0 THEN credentials[1] ELSE Null
    IN  [credential |-> credential, credentials |-> credentials] @@ app

getApps(creds) ==
    LET all == ALL_APPS
    IN  [i \in 1..Len(all) |-> AppWithCredentials(all[i], creds)]

----------------------------------------------------------------------------
(* the lookup helpers *)

\* UsableIntegration without the `installed` test
UsableIgnoringInstalled(app, type) ==
    /\ app.type = type
    /\ \/ type = daily_video
       \/ type = jitsi_video
       \/ type = huddle01_video
       \/ Len(app.credentials) > 0

\* the callback handed to apps.find in hasIntegration
UsableIntegration(app, type) ==
    /\ app.type = type
    /\ Truthy(app.installed)
    /\ \/ type = daily_video
       \/ type = jitsi_video
       \/ type = huddle01_video
       \/ Len(app.credentials) > 0

\* Array.prototype.find, given the positions whose element passes the test: the
\* first such element, else undefined
Find(list, passing) ==
    IF passing = {} THEN Undefined
    ELSE list[CHOOSE i \in passing : \A j \in passing : i <= j]

\* !!apps.find(...)
hasIntegration(appMeta, type) ==
    Find(appMeta, {i \in 1..Len(appMeta) : UsableIntegration(appMeta[i], type)}) # Undefined

\* ALL_APPS.some(...)
hasIntegrationInstalled(type) ==
    LET all == ALL_APPS
    IN  \E i \in 1..Len(all) : all[i].type = type /\ Truthy(all[i].installed)

\* the outcome of a call: a returned value or a thrown error
Returned(v) == [returned |-> v]
Threw(e)    == [threw |-> e]

\* reading a property of ALL_APPS_MAP[name]: a TypeError when the key is absent
getAppName(name) ==
    IF MapGet(name) = Undefined THEN Threw("TypeError") ELSE Returned(MapGet(name).name)

getAppType(name) ==
    IF MapGet(name) = Undefined THEN Threw("TypeError")
    ELSE LET type == MapGet(name).type
         IN  IF EndsWith(type, _calendar) THEN Returned("Calendar")
             ELSE IF EndsWith(type, _payment) THEN Returned("Payment")
             ELSE Returned("Unknown")

----------------------------------------------------------------------------
(* Inputs of the resolver *)

MaxStoreApps == 2   \* most entries of the app store
MaxUserCreds == 2   \* most credentials handed to getApps

\* all sequences over S of length at most n
SeqUpTo(S, n) == UNION {[1..k -> S] : k \in 0..n}

\* metadata of app-store apps
StoreApps ==
    { App(zoom_video, "Zoom Video", "true"),
      App(google_calendar, "Google Calendar", "undefined"),
      App(huddle01_video, "Huddle01", "true"),
      App(stripe_payment, "Stripe", "false") }

\* the static config objects, keyed by type
CalendarConfigs ==
    { <<>>, << <<apple_calendar, App(apple_calendar, "Apple Calendar", "true")>> >> }

ConferencingConfigs ==
    { <<>>,
      << <<daily_video, App(daily_video, "Daily.co Video", "true")>> >>,
      << <<daily_video, App(daily_video, "Daily.co Video", "false")>>,
         <<jitsi_video, App(jitsi_video, "Jitsi Meet", "true")>> >> }

PaymentConfigs ==
    { <<>>, << <<stripe_payment, App(stripe_payment, "Stripe", "true")>> >> }

CredentialTypes == {zoom_video, stripe_payment, daily_video}

\* a stored credential row: the secret key is present on the object at run time
Credential(id, type) == [id |-> id, type |-> type, key |-> [secret |-> "s3cr3t"]]

\* credential lists with distinct ids (the primary key)
CredentialLists ==
    { [i \in 1..Len(ts) |-> Credential(i, ts[i])] : ts \in SeqUpTo(CredentialTypes, MaxUserCreds) }

TypeArgs == { zoom_video, google_calendar, huddle01_video, stripe_payment,
              apple_calendar, daily_video, jitsi_video }
NameArgs == TypeArgs \cup { IndexKey(0) }

NoCall == [op |-> "none"]

----------------------------------------------------------------------------
(* The store read by the page loader *)

\* a null userId column; like null it is falsy for `||` and `!`
NullId == 0

\* prisma select: the selected columns of a row
Select(row, columns) == Pick(row, columns)

\* prisma.disposableLink.findUnique({ where: { link_slug: { link, slug } }, select })
\* resolves to the row whose composite key equals `where`, else null
findUniqueDisposableLink(where) ==
    LET hit == {r \in db.disposableLink :
                   \A k \in {"link", "slug"} : k \in DOMAIN where /\ r[k] = where[k]}
    IN  IF hit = {} THEN Null
        ELSE Select(CHOOSE r \in hit : TRUE, {"userId", "eventType", "expired"})

\* prisma.user.findMany({ where: { id: userId }, select }); id is the primary key
findManyUser(userId) ==
    LET hit == {r \in db.user : r.id = userId}
    IN  IF hit = {} THEN <<>>
        ELSE <<Select(CHOOSE r \in hit : TRUE,
                      {"id", "username", "name", "avatar", "theme", "brandColor"})>>

\* prisma.credential.findMany({ where: { userId: { in: userIds } }, select })
RECURSIVE findManyCredential(_, _)
findManyCredential(table, userIds) ==
    IF table = <<>> THEN <<>>
    ELSE IF Head(table).userId \in userIds
         THEN <<Select(Head(table), {"id", "type", "key"})>>
                  \o findManyCredential(Tail(table), userIds)
         ELSE findManyCredential(Tail(table), userIds)

\* prisma.booking.findFirst({ where: { uid }, select: { description, attendees } })
findFirstBooking(uid) ==
    LET hit == {b \in db.booking : b.uid = uid}
    IN  IF hit = {} THEN Null
        ELSE Select(CHOOSE b \in hit : TRUE, {"description", "attendees"})

----------------------------------------------------------------------------
(* getServerSideProps: the synchronous pieces *)

\* asStringOrThrow(context.query[k])
asStringOrThrow(q, k) ==
    IF k \in DOMAIN q THEN Returned(q[k]) ELSE Threw("asStringOrThrow")

\* the where-clause of the lookup: link through asStringOrThrow, slug as it came
LinkWhere(q) == Pick(q, {"link", "slug"})

\* linkExpired with the flag never read
linkExpiredIgnored(disposableType) == FALSE

\* const linkExpired = disposableType?.expired
linkExpired(disposableType) ==
    IF disposableType = Null THEN FALSE ELSE disposableType.expired

\* const userId = disposableType?.userId || disposableType?.eventType.userId
\* (`?.` guards disposableType only: a null eventType is dereferenced)
ResolveUserId(disposableType) ==
    IF disposableType = Null THEN Returned(NullId)
    ELSE IF disposableType.userId # NullId THEN Returned(disposableType.userId)
    ELSE IF disposableType.eventType = Null THEN Threw("TypeError")
    ELSE Returned(disposableType.eventType.userId)

\* UserIds with the ids of every user instead of the fetched ones
UserIdsOfEveryone(users) == {1, 2}

\* users.map((user) => user.id)
UserIds(users) == {users[i].id : i \in 1..Len(users)}

\* credentials.find((credential) => credential.type.includes("_web3"))
web3Credentials(credentials) ==
    Find(credentials, {i \in 1..Len(credentials) : Includes(credentials[i].type, _web3)})

\* isWeb3Active taken from any "_web3" credential instead of the first found
isWeb3ActiveAny(credentials) ==
    \E i \in 1..Len(credentials) :
        /\ Includes(credentials[i].type, _web3)
        /\ credentials[i].key = [isWeb3Active |-> TRUE]

\* the isWeb3Active field of eventType
isWeb3Active(credentials) ==
    LET w == web3Credentials(credentials)
    IN  IF w # Undefined /\ w.key # Null
        THEN (IF "isWeb3Active" \in DOMAIN w.key THEN w.key.isWeb3Active ELSE FALSE)
        ELSE FALSE

\* the nested function getBooking(): no statement of getServerSideProps calls it
getBooking(q) ==
    IF "rescheduleUid" \in DOMAIN q
    THEN Returned(findFirstBooking(q.rescheduleUid))
    ELSE Threw("asStringOrThrow")

\* let booking: Booking | null = null, never assigned afterwards
BookingProp(q) == Null

\* const profile = { name: user.name || user.username, ... }
Profile(user) ==
    [ name       |-> IF user.name # "" THEN user.name ELSE user.username,
      image      |-> user.avatar,
      slug       |-> user.username,
      theme      |-> user.theme,
      brandColor |-> user.brandColor ]

\* the returned props
Props(q, disposableType, users, credentials) ==
    [ profile   |-> Profile(users[1]),
      eventType |-> [isWeb3Active |-> isWeb3Active(credentials)] @@ disposableType.eventType,
      booking   |-> BookingProp(q),
      isDynamicGroupBooking   |-> FALSE,
      isDisposableBookingLink |-> TRUE,
      disposableBookingObject |-> LinkWhere(q) ]

NotFound   == [notFound |-> TRUE]
Pending    == [pending |-> TRUE]
ReturnedProps(p) == [props |-> p]

Issue(fetch)   == [kind |-> "issue",   fetch |-> fetch]
Resolve(fetch) == [kind |-> "resolve", fetch |-> fetch]
Reject(fetch)  == [kind |-> "reject",  fetch |-> fetch]

InitialLocals ==
    [disposableType |-> Undefined, userId |-> NullId, users |-> <<>>, credentials |-> <<>>]

----------------------------------------------------------------------------
(* getServerSideProps: the code between two awaits, as the step it takes *)

Done(o)             == [pc |-> "done", outcome |-> o, issued |-> <<>>]
Continue(p, issued) == [pc |-> p, outcome |-> Pending, issued |-> issued]

\* up to the first prisma call
StartStep(q) ==
    LET link == asStringOrThrow(q, "link")
    IN  IF "threw" \in DOMAIN link THEN Done(link)
        ELSE Continue("awaitLink", <<Issue("disposableLink")>>)

\* from the lookup's result to the user fetch
AfterLinkLookup(disposableType) ==
    IF linkExpired(disposableType) THEN Done(NotFound)
    ELSE LET userId == ResolveUserId(disposableType)
         IN  IF "threw" \in DOMAIN userId THEN Done(userId)
             ELSE IF userId.returned = NullId THEN Done(NotFound)
             ELSE Continue("awaitUser", <<Issue("user")>>)

\* from the users to the credential fetch
AfterUsers(disposableType, users) ==
    IF Len(users) = 0 THEN Done(NotFound)
    ELSE IF disposableType.eventType = Null THEN Done(NotFound)
    ELSE Continue("awaitCredential", <<Issue("credential")>>)

\* from the credentials to the return statement
AfterCredentials(q, disposableType, users, credentials) ==
    Done(ReturnedProps(Props(q, disposableType, users, credentials)))

\* OnReject with one more attempt of the failed query
OnRejectRetry(fetch) ==
    Continue(CASE fetch = "disposableLink" -> "awaitLink"
               [] fetch = "user" -> "awaitUser"
               [] OTHER -> "awaitCredential",
             <<Issue(fetch)>>)

\* a rejected prisma promise is not caught: the error leaves getServerSideProps
OnReject(fetch) == Done(Threw("DatabaseError"))

----------------------------------------------------------------------------
(* getServerSideProps as it is written: one fetch after the other *)

\* a request arrives
Request(q) ==
    /\ pc = "idle" /\ cpc = "idle" /\ query = Undefined
    /\ query' = q
    /\ UNCHANGED <<db, faults, appVars, seqVars, concVars>>

Start ==
    /\ pc = "idle" /\ query # Undefined
    /\ LET r == StartStep(query)
       IN  /\ pc' = r.pc
           /\ outcome' = r.outcome
           /\ events' = events \o r.issued
    /\ UNCHANGED <<loc, envVars, appVars, concVars>>

LinkResolves ==
    /\ pc = "awaitLink" /\ "disposableLink" \notin faults
    /\ LET disposableType == findUniqueDisposableLink(LinkWhere(query))
           r == AfterLinkLookup(disposableType)
       IN  /\ loc' = [loc EXCEPT !.disposableType = disposableType,
                                 !.userId = IF r.pc = "awaitUser"
                                            THEN ResolveUserId(disposableType).returned
                                            ELSE @]
           /\ pc' = r.pc
           /\ outcome' = r.outcome
           /\ events' = Append(events, Resolve("disposableLink")) \o r.issued
    /\ UNCHANGED <<envVars, appVars, concVars>>

UserResolves ==
    /\ pc = "awaitUser" /\ "user" \notin faults
    /\ LET users == findManyUser(loc.userId)
           r == AfterUsers(loc.disposableType, users)
       IN  /\ loc' = [loc EXCEPT !.users = users]
           /\ pc' = r.pc
           /\ outcome' = r.outcome
           /\ events' = Append(events, Resolve("user")) \o r.issued
    /\ UNCHANGED <<envVars, appVars, concVars>>

CredentialResolves ==
    /\ pc = "awaitCredential" /\ "credential" \notin faults
    /\ LET credentials == findManyCredential(db.credential, UserIds(loc.users))
           r == AfterCredentials(query, loc.disposableType, loc.users, credentials)
       IN  /\ loc' = [loc EXCEPT !.credentials = credentials]
           /\ pc' = r.pc
           /\ outcome' = r.outcome
           /\ events' = Append(events, Resolve("credential")) \o r.issued
    /\ UNCHANGED <<envVars, appVars, concVars>>

\* the fetch in flight at each await
InFlight(p) ==
    CASE p = "awaitLink" -> "disposableLink"
      [] p = "awaitUser" -> "user"
      [] p = "awaitCredential" -> "credential"
      [] OTHER -> "none"

\* the promise of a query in `faults` rejects (the store fails it, or prisma
\* refuses its where-clause); every other query resolves
MayReject(fetch) == fetch \in faults

FetchRejects ==
    /\ InFlight(pc) # "none" /\ MayReject(InFlight(pc))
    /\ LET r == OnReject(InFlight(pc))
       IN  /\ pc' = r.pc
           /\ outcome' = r.outcome
           /\ events' = Append(events, Reject(InFlight(pc))) \o r.issued
    /\ UNCHANGED <<loc, envVars, appVars, concVars>>

----------------------------------------------------------------------------
(* The loader restructured: the user fetch and the credential fetch are     *)
(* issued together and joined (Promise.all) before their results are used.  *)

ConcAfterLinkLookup(disposableType) ==
    LET r == AfterLinkLookup(disposableType)
    IN  IF r.pc = "awaitUser"
        THEN Continue("awaitBoth", <<Issue("user"), Issue("credential")>>)
        ELSE r

\* after the join: the checks and the return statement in the order of the source
AfterJoin(q, disposableType, users, credentials) ==
    LET r == AfterUsers(disposableType, users)
    IN  IF r.pc = "awaitCredential"
        THEN AfterCredentials(q, disposableType, users, credentials)
        ELSE r

ConcInitialLocals == [settled |-> {}] @@ InitialLocals

\* the two loaders share nothing but the read-only store: the restructured one is
\* run on the same request once the loader of the source has ended
ConcStart ==
    /\ cpc = "idle" /\ query # Undefined /\ pc = "done"
    /\ LET r == StartStep(query)
       IN  /\ cpc' = r.pc
           /\ coutcome' = r.outcome
           /\ cevents' = cevents \o r.issued
    /\ UNCHANGED <<cloc, envVars, appVars, seqVars>>

ConcLinkResolves ==
    /\ cpc = "awaitLink" /\ "disposableLink" \notin faults
    /\ LET disposableType == findUniqueDisposableLink(LinkWhere(query))
           r == ConcAfterLinkLookup(disposableType)
       IN  /\ cloc' = [cloc EXCEPT !.disposableType = disposableType,
                                   !.userId = IF r.pc = "awaitBoth"
                                              THEN ResolveUserId(disposableType).returned
                                              ELSE @]
           /\ cpc' = r.pc
           /\ coutcome' = r.outcome
           /\ cevents' = Append(cevents, Resolve("disposableLink")) \o r.issued
    /\ UNCHANGED <<envVars, appVars, seqVars>>

ConcLinkRejects ==
    /\ cpc = "awaitLink" /\ MayReject("disposableLink")
    /\ cpc' = "done"
    /\ coutcome' = OnReject("disposableLink").outcome
    /\ cevents' = Append(cevents, Reject("disposableLink"))
    /\ UNCHANGED <<cloc, envVars, appVars, seqVars>>

ConcUserResolves ==
    /\ cpc = "awaitBoth" /\ "user" \notin cloc.settled /\ "user" \notin faults
    /\ cloc' = [cloc EXCEPT !.users = findManyUser(cloc.userId),
                            !.settled = @ \cup {"user"}]
    /\ cevents' = Append(cevents, Resolve("user"))
    /\ UNCHANGED <<cpc, coutcome, envVars, appVars, seqVars>>

ConcCredentialResolves ==
    /\ cpc = "awaitBoth" /\ "credential" \notin cloc.settled /\ "credential" \notin faults
    /\ cloc' = [cloc EXCEPT !.credentials = findManyCredential(db.credential, {cloc.userId}),
                            !.settled = @ \cup {"credential"}]
    /\ cevents' = Append(cevents, Resolve("credential"))
    /\ UNCHANGED <<cpc, coutcome, envVars, appVars, seqVars>>

\* either task rejecting rejects the join
ConcTaskRejects(fetch) ==
    /\ cpc = "awaitBoth" /\ fetch \notin cloc.settled /\ MayReject(fetch)
    /\ cpc' = "done"
    /\ coutcome' = OnReject(fetch).outcome
    /\ cevents' = Append(cevents, Reject(fetch))
    /\ UNCHANGED <<cloc, envVars, appVars, seqVars>>

ConcJoin ==
    /\ cpc = "awaitBoth" /\ cloc.settled = {"user", "credential"}
    /\ LET r == AfterJoin(query, cloc.disposableType, cloc.users, cloc.credentials)
       IN  /\ cpc' = r.pc
           /\ coutcome' = r.outcome
    /\ UNCHANGED <<cloc, cevents, envVars, appVars, seqVars>>

----------------------------------------------------------------------------
(* Inputs of the page loader *)

MaxCredentials == 2   \* most rows of the credential table

UserIdSet == {1, 2}

EventType(userId) == [id |-> 7, title |-> "30min", userId |-> userId]

LinkRows ==
    { [link |-> "l1", slug |-> "s1", userId |-> u, eventType |-> e, expired |-> x,
       timeZone |-> "UTC"] :
        u \in {NullId, 1}, e \in {Null} \cup {EventType(o) : o \in {NullId, 2}},
        x \in BOOLEAN }

User(id) ==
    [ id |-> id,
      username |-> IF id = 1 THEN "alice" ELSE "bob",
      name |-> IF id = 1 THEN "" ELSE "Bob B.",
      email |-> "x@example.com", avatar |-> "a.png", theme |-> "dark",
      brandColor |-> "#000", password |-> "hash" ]

\* provider payloads of a credential row
Web3Keys == { Null, [isWeb3Active |-> TRUE], [isWeb3Active |-> FALSE] }

CredentialRowValues ==
    { [type |-> acme_web3, key |-> k, userId |-> u] : k \in Web3Keys, u \in UserIdSet }
    \cup { [type |-> zoom_video, key |-> [secret |-> "s3cr3t"], userId |-> u] : u \in UserIdSet }

CredentialTables ==
    { [i \in 1..Len(vs) |-> [id |-> i] @@ vs[i]] : vs \in SeqUpTo(CredentialRowValues, MaxCredentials) }

Booking(uid) ==
    [ uid |-> uid, description |-> "intro call", title |-> "30min",
      attendees |-> << [email |-> "g@example.com", name |-> "Guest"] >> ]

Stores ==
    [ disposableLink : {{}} \cup {{r} : r \in LinkRows},
      user           : SUBSET {User(id) : id \in UserIdSet},
      credential     : CredentialTables,
      booking        : {{Booking("b1")}} ]

Fetches == {"disposableLink", "user", "credential"}

\* context.query: each parameter present or not
Queries ==
    { Pick([link |-> "l1", slug |-> "s1", rescheduleUid |-> "b1"], ks) :
        ks \in SUBSET {"link", "slug", "rescheduleUid"} }

----------------------------------------------------------------------------
(* The resolver's operations *)

CallGetApps ==
    /\ apps = Undefined
    /\ apps' = Returned(getApps(userCredentials))
    /\ UNCHANGED <<appStore, CalendarApps, ConferencingApps, PaymentApps, userCredentials, ret>>
    /\ UNCHANGED <<envVars, seqVars, concVars>>

\* one helper call is observed per run
Call(op, arg, val) ==
    /\ ret = NoCall
    /\ ret' = [op |-> op, arg |-> arg, val |-> val]
    /\ UNCHANGED <<appStore, CalendarApps, ConferencingApps, PaymentApps, userCredentials, apps>>
    /\ UNCHANGED <<envVars, seqVars, concVars>>

CallHasIntegration(type) ==
    /\ apps # Undefined
    /\ Call("hasIntegration", type, hasIntegration(apps.returned, type))

CallHasIntegrationInstalled(type) ==
    /\ apps # Undefined
    /\ Call("hasIntegrationInstalled", type, hasIntegrationInstalled(type))

CallGetAppName(name) ==
    /\ apps # Undefined
    /\ Call("getAppName", name, getAppName(name))

CallGetAppType(name) ==
    /\ apps # Undefined
    /\ Call("getAppType", name, getAppType(name))

----------------------------------------------------------------------------
(* Specifications *)

IdleResolver ==
    /\ appStore = <<>> /\ CalendarApps = <<>> /\ ConferencingApps = <<>>
    /\ PaymentApps = <<>> /\ userCredentials = <<>>
    /\ apps = Undefined /\ ret = NoCall

IdleLoader ==
    /\ pc = "idle" /\ loc = InitialLocals /\ events = <<>> /\ outcome = Pending

IdleConc ==
    /\ cpc = "idle" /\ cloc = ConcInitialLocals /\ cevents = <<>> /\ coutcome = Pending

\* the page loader
Init ==
    /\ db \in Stores
    /\ faults \in SUBSET Fetches
    /\ query = Undefined
    /\ IdleLoader /\ IdleConc /\ IdleResolver

Next ==
    \/ \E q \in Queries : Request(q)
    \/ Start
    \/ LinkResolves
    \/ UserResolves
    \/ CredentialResolves
    \/ FetchRejects

Spec == Init /\ [][Next]_vars

\* the page loader beside its concurrent restructuring, on the same request and store
NextConc ==
    \/ Next
    \/ ConcStart
    \/ ConcLinkResolves
    \/ ConcLinkRejects
    \/ ConcUserResolves
    \/ ConcCredentialResolves
    \/ \E f \in {"user", "credential"} : ConcTaskRejects(f)
    \/ ConcJoin

SpecConc == Init /\ [][NextConc]_vars

\* the resolver
InitApps ==
    /\ appStore \in SeqUpTo(StoreApps, MaxStoreApps)
    /\ CalendarApps \in CalendarConfigs
    /\ ConferencingApps \in ConferencingConfigs
    /\ PaymentApps \in PaymentConfigs
    /\ userCredentials \in CredentialLists
    /\ apps = Undefined /\ ret = NoCall
    /\ db = [disposableLink |-> {}, user |-> {}, credential |-> <<>>, booking |-> {}]
    /\ faults = {} /\ query = Undefined
    /\ IdleLoader /\ IdleConc

NextApps ==
    \/ CallGetApps
    \/ \E type \in TypeArgs : CallHasIntegration(type)
    \/ \E type \in TypeArgs : CallHasIntegrationInstalled(type)
    \/ \E name \in NameArgs : CallGetAppName(name)
    \/ \E name \in NameArgs : CallGetAppType(name)

SpecApps == InitApps /\ [][NextApps]_vars

----------------------------------------------------------------------------
(* Properties of the resolver, checked under SpecApps *)

\* the k-th smallest element of a finite set of integers
KthSmallest(S, k) == CHOOSE j \in S : Cardinality({x \in S : x <= j}) = k

\* positions of the credentials of a given type in the list handed to getApps
PositionsOfType(type) ==
    {j \in 1..Len(userCredentials) : userCredentials[j].type = type}

\* C1: getApps returns one entry per catalog entry, in catalog order, and each
\* entry's `credentials` holds exactly the given credentials of the entry's type,
\* in the order given, each with the fields id and type and no other.
C1_GetAppsMatchesByType ==
    apps # Undefined =>
        LET r == apps.returned
            catalog == ALL_APPS
        IN  /\ Len(r) = Len(catalog)
            /\ \A i \in 1..Len(r) :
                LET P == PositionsOfType(catalog[i].type)
                IN  /\ \A f \in DOMAIN catalog[i] : r[i][f] = catalog[i][f]
                    /\ Len(r[i].credentials) = Cardinality(P)
                    /\ \A k \in 1..Cardinality(P) :
                        LET c == userCredentials[KthSmallest(P, k)]
                        IN  r[i].credentials[k] = [id |-> c.id, type |-> c.type]

\* C1 witness: a catalog of several apps was resolved against credentials of which
\* two belong to one app and one to none of another app's type
C1_Witness ==
    /\ apps # Undefined
    /\ Len(apps.returned) >= 3
    /\ \E i \in 1..Len(apps.returned) : Len(apps.returned[i].credentials) = 2
    /\ \E i \in 1..Len(apps.returned) : Len(apps.returned[i].credentials) = 0
    /\ \E j \in 1..Len(userCredentials) : "key" \in DOMAIN userCredentials[j]

ZeroConfigTypes == {daily_video, jitsi_video, huddle01_video}

\* C2: hasIntegration(apps, t) is true iff some resolved app has type t, is marked
\* installed, and t is a zero-configuration type or the user holds a credential of
\* type t; so an installed app without credentials is usable iff its type is in
\* the allow-list.
C2_HasIntegrationIff ==
    (ret.op = "hasIntegration") =>
        LET t == ret.arg
            r == apps.returned
        IN  /\ ret.val =
                  (\E i \in 1..Len(r) :
                      /\ r[i].type = t
                      /\ r[i].installed = "true"
                      /\ (t \in ZeroConfigTypes \/ PositionsOfType(t) # {}))
            /\ \A i \in 1..Len(r) :
                  (r[i].type = t /\ r[i].installed = "true" /\ PositionsOfType(t) = {})
                      => (ret.val = (t \in ZeroConfigTypes))

\* C2 witness: an installed zero-configuration app without any credential was
\* reported usable
C2_Witness ==
    /\ ret.op = "hasIntegration"
    /\ ret.val = TRUE
    /\ ret.arg \in ZeroConfigTypes
    /\ PositionsOfType(ret.arg) = {}
    /\ userCredentials # <<>>

\* the category the suffix convention gives a type string
CategoryOf(type) ==
    IF EndsWith(type, _calendar) THEN "Calendar"
    ELSE IF EndsWith(type, _payment) THEN "Payment"
    ELSE "Unknown"

\* C8: for every app in the catalog, getAppType of that app's type returns the
\* category of the type's suffix, whatever key the app is stored under.
C8_GetAppTypeOfCatalogType ==
    (ret.op = "getAppType" /\ \E i \in DOMAIN ALL_APPS : ALL_APPS[i].type = ret.arg)
        => ret.val = Returned(CategoryOf(ret.arg))

----------------------------------------------------------------------------
(* Properties of the page loader, checked under Spec *)

HasProps(o) == "props" \in DOMAIN o
HasThrown(o) == "threw" \in DOMAIN o

\* the rows of the disposable-link table with the request's (link, slug)
RequestedLinks ==
    {r \in db.disposableLink :
        /\ "link" \in DOMAIN query /\ r.link = query.link
        /\ "slug" \in DOMAIN query /\ r.slug = query.slug}

\* the prisma calls issued so far, in order
RECURSIVE IssuedOf(_)
IssuedOf(evs) ==
    IF evs = <<>> THEN <<>>
    ELSE IF Head(evs).kind = "issue" THEN <<Head(evs).fetch>> \o IssuedOf(Tail(evs))
    ELSE IssuedOf(Tail(evs))

Issued == IssuedOf(events)

LookupSettled == \E i \in 1..Len(events) : events[i] = Resolve("disposableLink")

\* C3: when the lookup by (link, slug) resolves to no record or to an expired
\* record, getServerSideProps returns {notFound: true} and issues no other query.
C3_ExpiredOrMissingLinkNotFound ==
    (LookupSettled /\ (RequestedLinks = {} \/ \E r \in RequestedLinks : r.expired))
        => /\ pc = "done"
           /\ outcome = NotFound
           /\ Issued = <<"disposableLink">>

\* C3 witness: the lookup resolved to an expired record that names a user and an
\* event type, and the loader has ended
C3_Witness ==
    /\ pc = "done" /\ LookupSettled
    /\ \E r \in RequestedLinks : r.expired /\ r.userId # NullId /\ r.eventType # Null
    /\ \E u \in db.user : \E r \in RequestedLinks : u.id = r.userId

\* the booking row a reschedule identifier names
BookingNamed(uid) == {b \in db.booking : b.uid = uid}

\* C4: the returned props carry the {description, attendees} projection of the
\* booking named by the reschedule identifier, and null when the request has none.
C4_BookingPropIsPriorBooking ==
    HasProps(outcome) =>
        IF "rescheduleUid" \in DOMAIN query /\ BookingNamed(query.rescheduleUid) # {}
        THEN \E b \in BookingNamed(query.rescheduleUid) :
                outcome.props.booking =
                    [description |-> b.description, attendees |-> b.attendees]
        ELSE outcome.props.booking = Null

\* positions of the host user's "_web3" credentials in the credential table
HostWeb3Positions ==
    {j \in 1..Len(db.credential) :
        /\ db.credential[j].userId = loc.userId
        /\ Includes(db.credential[j].type, _web3)}

Web3On(j) == db.credential[j].key = [isWeb3Active |-> TRUE]

\* C5 as claimed: isWeb3Active is true iff the host user holds some "_web3"
\* credential whose key is {isWeb3Active: true}, whatever else the user holds.
C5_AnyActiveWeb3Credential ==
    HasProps(outcome) =>
        outcome.props.eventType.isWeb3Active = (\E j \in HostWeb3Positions : Web3On(j))

\* C5 amended: isWeb3Active is true iff the first "_web3" credential the query
\* returned for the host user has the key {isWeb3Active: true}; it is false when
\* the user has no "_web3" credential.
C5_FirstWeb3CredentialDecides ==
    HasProps(outcome) =>
        outcome.props.eventType.isWeb3Active =
            (\E j \in HostWeb3Positions :
                /\ Web3On(j)
                /\ \A k \in HostWeb3Positions : j <= k)

\* C5 witness: props were returned with isWeb3Active true for a host holding two
\* "_web3" credentials of which only the first is active
C5_Witness ==
    /\ HasProps(outcome)
    /\ outcome.props.eventType.isWeb3Active = TRUE
    /\ Cardinality(HostWeb3Positions) = 2
    /\ \E j \in HostWeb3Positions : ~Web3On(j)

\* the owner a link record resolves to, NullId when it resolves to none
OwnerOf(r) ==
    IF r.userId # NullId THEN r.userId
    ELSE IF r.eventType # Null THEN r.eventType.userId
    ELSE NullId

\* a required entity of the link record is missing
MissingEntity(r) ==
    \/ OwnerOf(r) = NullId
    \/ ~ \E u \in db.user : u.id = OwnerOf(r)
    \/ r.eventType = Null

\* C6: with link and slug present and no query failing, a missing owner, host user
\* or event type makes getServerSideProps return {notFound: true}: it never throws
\* and never returns props for such a store.
C6_MissingEntityIsNotFound ==
    (pc = "done" /\ faults = {} /\ \E r \in RequestedLinks : MissingEntity(r))
        => outcome = NotFound

\* C7: a request without `link` or without `slug` ends in the error thrown by
\* asStringOrThrow, before the disposable-link lookup is issued.
C7_MissingLinkOrSlugThrowsFirst ==
    (pc # "idle" /\ ("link" \notin DOMAIN query \/ "slug" \notin DOMAIN query))
        => /\ pc = "done"
           /\ outcome = Threw("asStringOrThrow")
           /\ events = <<>>

FetchOrder == <<"disposableLink", "user", "credential", "booking">>

\* C9: the queries are issued one after the other in the order disposable link,
\* host user, credentials, prior booking; each only after the one before it has
\* resolved; each at most once; and a query that fails ends the invocation with
\* its error.
C9_SequentialSingleAttempt ==
    /\ Len(Issued) <= Len(FetchOrder)
    /\ Issued = SubSeq(FetchOrder, 1, Len(Issued))
    /\ \A i \in 1..Len(events) :
        /\ (events[i].kind = "issue" /\ i > 1)
              => /\ events[i - 1].kind = "resolve"
                 /\ \A j \in 1..(i - 1) : events[j].kind = "issue" =>
                        \E k \in (j + 1)..(i - 1) : events[k] = Resolve(events[j].fetch)
        /\ events[i].kind # "issue"
              => i > 1 /\ events[i - 1] = Issue(events[i].fetch)
        /\ events[i].kind = "reject"
              => i = Len(events) /\ pc = "done" /\ HasThrown(outcome)

\* C9 witness: the three queries ran in order and the last one failed
C9_Witness ==
    /\ pc = "done"
    /\ events = << Issue("disposableLink"), Resolve("disposableLink"),
                   Issue("user"), Resolve("user"),
                   Issue("credential"), Reject("credential") >>
    /\ outcome = Threw("DatabaseError")

----------------------------------------------------------------------------
(* The restructured loader against the loader of the source, under SpecConc *)

\* the same outcome: not-found, the same error, or props with the same
\* eventType.isWeb3Active and profile
SameOutcome(a, b) ==
    IF HasProps(a) /\ HasProps(b)
    THEN /\ a.props.eventType.isWeb3Active = b.props.eventType.isWeb3Active
         /\ a.props.profile = b.props.profile
    ELSE a = b

BothEnded == pc = "done" /\ cpc = "done"

CredentialFaultSurfaced ==
    /\ outcome = NotFound
    /\ \A i \in 1..Len(Issued) : Issued[i] # "credential"
    /\ "credential" \in faults
    /\ coutcome = Threw("DatabaseError")

====
